---- MODULE Spec2Model ----
(***************************************************************************)
(* State-machine model of deepfillv2/trainer.py: the two training loops    *)
(* (WGAN_trainer, LSGAN_trainer), the checkpoint functions (restore,       *)
(* save_state), the optimizers' learning-rate schedule and the Logger.     *)
(*                                                                         *)
(* Tensors are abstracted: a network's parameters are the count of         *)
(* optimizer steps applied to them (per optimizer), a gradient buffer is   *)
(* the set of backward passes accumulated in it, a learning rate is the    *)
(* exact rational <<numerator, denominator>>.                              *)
(*                                                                         *)
(* Run 1 is a run started from nothing; run 2 is a WGAN run started with   *)
(* opt.restore set and opt.wandb_runpath naming run 1.                     *)
(***************************************************************************)
EXTENDS Integers, Sequences, FiniteSets, TLC

\* ---------------------------------------------------------------- bounds
MaxEpochs  == 3   \* opt.epochs ranges over 1..MaxEpochs
MaxBatches == 2   \* len(dataloader) ranges over 1..MaxBatches
MaxEvery   == 2   \* opt.log_every, opt.checkpoint_every, opt.checkpoint_interval
MaxPixels  == 2   \* positions of an image

\* ------------------------------------------------- configuration values
lr_g == 8                     \* opt.lr_g
lr_d == 4                     \* opt.lr_d
lr_decrease_factor_num == 1   \* opt.lr_decrease_factor = 1/2
lr_decrease_factor_den == 2

Runs == {1, 2}
Nets == {"G", "D", "P"}       \* generator, discriminator, perceptualnet

VARIABLES
    trainer,          \* "WGAN" or "LSGAN": the function that is run
    opt,              \* the configuration object (fields used by the loops)
    len_dataloader,   \* len(dataloader): batches per epoch
    opt_restore,      \* opt.restore of each run
    pc,               \* position of each run in its trainer
    exc,              \* the exception that ended a run, if any
    checkpoint,       \* result of restore(opt)
    epoch, batch_idx, n_iter,
    params,           \* params[r][net]: steps applied, per optimizer
    grads,            \* grads[r][net]: accumulated .grad of the net's parameters
    optimizer_g, optimizer_d,   \* [lr, t]: param_groups' lr and Adam's step count
    loss,             \* last composite generator loss
    logger,           \* Logger.current_iteration
    writer, wandb_log,\* events received by the SummaryWriter / by wandb.log
    store,            \* files of wandb.run.dir: key -> serialized snapshot
    files,            \* files written by LSGAN_trainer.save_model
    zero_grad_to_none,\* whether zero_grad() leaves .grad None (torch >= 2.0) or zeros
    batches,          \* history: batches fetched by each run's loop
    d_calls, g_calls, \* history: optimizer_d.step() / optimizer_g.step() calls
    saves,            \* history: arguments of each save_state call
    hist,             \* history: run 1's training state after each batch
    img, mask,        \* the batch: pixel values, binary mask
    first_out, second_out,      \* the generator's coarse and refined outputs
    first_out_wholeimg, second_out_wholeimg,
    first_MaskL1Loss, second_MaskL1Loss

vars == << trainer, opt, len_dataloader, opt_restore, pc, exc, checkpoint,
           epoch, batch_idx, n_iter, params, grads, optimizer_g, optimizer_d,
           loss, logger, writer, wandb_log, store, files, zero_grad_to_none,
           batches,
           d_calls, g_calls, saves, hist, img, mask, first_out, second_out,
           first_out_wholeimg, second_out_wholeimg,
           first_MaskL1Loss, second_MaskL1Loss >>

\* the tensors of one batch; the loops' control state does not depend on them
tensors == << img, mask, first_out, second_out, first_out_wholeimg,
              second_out_wholeimg, first_MaskL1Loss, second_MaskL1Loss >>

\* ------------------------------------------------------------- helpers
RECURSIVE Pow(_, _)
Pow(b, k) == IF k = 0 THEN 1 ELSE b * Pow(b, k - 1)

Max(S) == CHOOSE x \in S : \A y \in S : y <= x

None == [none |-> TRUE]                 \* Python's None
NoExc == "no exception"

NoRestore == << "", 0 >>                \* opt.restore == ''
Latest == << "latest", 0 >>             \* f'checkpoint_latest.pth'
Iter(n) == << "iter", n >>              \* f'checkpoint_{n}.pth'

\* A gradient buffer: never written (None), cleared by zero_grad(), or the sum
\* of the backward passes listed in "from".
NoGrad == [none |-> TRUE, zeroed |-> FALSE, from |-> {}]
Zeroed == [none |-> FALSE, zeroed |-> TRUE, from |-> {}]

FreshParams == [net \in Nets |-> [g |-> 0, d |-> 0]]

\* lr_in * (opt.lr_decrease_factor ** (epoch // opt.lr_decrease_epoch))
DecayedLr(lr_in, e, o) ==
    LET k == e \div o.lr_decrease_epoch
    IN  << lr_in * Pow(lr_decrease_factor_num, k), Pow(lr_decrease_factor_den, k) >>

\* torch.optim.Adam(<params>, lr = lr_in, ...)
Adam(lr_in) == [lr |-> << lr_in, 1 >>, t |-> 0]

\* (mutant) optimizer_d constructed over generator.parameters() in both trainers
optimizer_d_over_generator(tr) == {"G"}

\* the parameters each optimizer is constructed over
optimizer_g_params(tr) == {"G"}
optimizer_d_params(tr) == IF tr = "WGAN" THEN {"D"} ELSE {"G"}

\* torch.save / torch.load of the state dictionary: the blob holds the values
\* in the dictionary's key order; a loaded tensor has no autograd history.
torch_save(state) ==
    << state.epoch, state.G, state.optimizer_g, state.D, state.optimizer_d,
       state.n_iter, state.loss.value >>
torch_load(blob) ==
    [ epoch |-> blob[1], G |-> blob[2], optimizer_g |-> blob[3], D |-> blob[4],
      optimizer_d |-> blob[5], n_iter |-> blob[6],
      loss |-> [value |-> blob[7], grad_fn |-> FALSE] ]

Configs ==
    [ epochs : 1..MaxEpochs, log_every : 1..MaxEvery, checkpoint_every : 1..MaxEvery,
      multi_gpu : BOOLEAN, lr_decrease_epoch : 1..2, checkpoint_interval : 1..MaxEvery ]

\* Options a trainer never reads are fixed, so that equal runs are not told apart.
UsedBy(tr, o) ==
    IF tr = "WGAN" THEN o.checkpoint_interval = 1
    ELSE o.log_every = 1 /\ o.checkpoint_every = 1

\* every run before it is started
FreshRuns ==
    /\ opt_restore = [r \in Runs |-> NoRestore]
    /\ exc = [r \in Runs |-> NoExc]
    /\ checkpoint = [r \in Runs |-> None]
    /\ epoch = [r \in Runs |-> 0]
    /\ batch_idx = [r \in Runs |-> 0]
    /\ n_iter = [r \in Runs |-> 0]
    /\ params = [r \in Runs |-> FreshParams]
    /\ grads = [r \in Runs |-> [net \in Nets |-> NoGrad]]
    /\ optimizer_g = [r \in Runs |-> Adam(lr_g)]
    /\ optimizer_d = [r \in Runs |-> Adam(lr_d)]
    /\ loss = [r \in Runs |-> None]
    /\ logger = [r \in Runs |-> 0]
    /\ writer = [r \in Runs |-> {}]
    /\ wandb_log = [r \in Runs |-> {}]
    /\ store = [r \in Runs |-> << >>]
    /\ files = [r \in Runs |-> {}]
    /\ batches = [r \in Runs |-> 0]
    /\ d_calls = [r \in Runs |-> 0]
    /\ g_calls = [r \in Runs |-> 0]
    /\ saves = [r \in Runs |-> << >>]
    /\ hist = << >>

NoTensor == << >>               \* a tensor not computed yet

Init ==
    /\ trainer \in {"WGAN", "LSGAN"}
    /\ opt \in {o \in Configs : UsedBy(trainer, o)}
    /\ len_dataloader \in 1..MaxBatches
    /\ pc = [r \in Runs |-> "idle"]
    /\ zero_grad_to_none \in (IF trainer = "LSGAN" THEN BOOLEAN ELSE {FALSE})
    /\ FreshRuns
    /\ img = NoTensor /\ mask = NoTensor
    /\ first_out = NoTensor /\ second_out = NoTensor
    /\ first_out_wholeimg = NoTensor /\ second_out_wholeimg = NoTensor
    /\ first_MaskL1Loss = NoTensor /\ second_MaskL1Loss = NoTensor

\* ------------------------------------------------ autograd and optimizers
\* optimizer.zero_grad(): clears the .grad of the optimizer's own parameters
zero_grad(g, bound) ==
    [net \in Nets |-> IF net \in bound /\ ~g[net].none THEN Zeroed ELSE g[net]]

\* <loss>.backward(): accumulates into the .grad of every parameter reached
backward(g, reached, tag) ==
    [net \in Nets |->
        IF net \in reached
        THEN [none |-> FALSE, zeroed |-> FALSE, from |-> g[net].from \cup {tag}]
        ELSE g[net]]

\* parameters optimizer.step() updates: its own, except those whose .grad is None
Stepped(g, bound, to_none) ==
    {net \in bound : ~g[net].none /\ ~(g[net].zeroed /\ to_none)}

\* optimizer.step() by optimizer "who" ("g" or "d")
step(p, g, bound, who, to_none) ==
    [net \in Nets |->
        IF net \in Stepped(g, bound, to_none)
        THEN [p[net] EXCEPT ![who] = @ + 1] ELSE p[net]]

\* utils.create_perceptualnet() is not part of trainer.py: its parameters
\* take no gradient (the network is pretrained and frozen).
perceptual_requires_grad == FALSE

\* The autograd graph of a tensor is the set of networks whose parameters a
\* backward pass through it reaches.  img and mask are leaves.
generator_graph == {"G"}                 \* first_out, second_out
\* img * (1 - mask) + out * mask
wholeimg_graph(out) == out
detach_keeps_graph(graph) == graph
\* <tensor>.detach(): the same values, cut from the graph
detach(graph) == {}
\* discriminator(x, mask)
discriminator(graph) == graph \cup {"D"}
\* perceptualnet(x)
perceptualnet(graph) ==
    graph \cup (IF perceptual_requires_grad THEN {"P"} ELSE {})

\* parameters reached by loss_D.backward(): true_scalar, and fake_scalar on
\* the detached composite
loss_D_reaches ==
    discriminator({}) \cup discriminator(detach(wholeimg_graph(generator_graph)))
\* parameters reached by loss.backward(): the two L1 losses, the perceptual
\* loss and the GAN loss through the discriminator, on the composite itself
loss_reaches ==
    wholeimg_graph(generator_graph) \cup wholeimg_graph(generator_graph)
      \cup perceptualnet(wholeimg_graph(generator_graph))
      \cup discriminator(wholeimg_graph(generator_graph))

\* ------------------------------------------------------------ checkpoints
\* identifiers a run may be given in opt.restore
RestoreIds(r) ==
    IF r = 1 THEN {NoRestore, Latest}
    ELSE {Latest} \cup {Iter(n) : n \in 1..(opt.epochs * len_dataloader)}

\* files of the run opt.wandb_runpath names: run 1's for run 2, none for run 1
RunPath(r) == IF r = 2 THEN store[1] ELSE << >>

\* restore(opt) and the Logger constructed before it
Restore(r) ==
    /\ trainer = "WGAN"
    /\ pc[r] = "idle"
    /\ r = 2 => pc[1] # "idle"
    /\ \E id \in RestoreIds(r), fault \in {"none", "fetch", "load"} :
          LET fetched == id # NoRestore /\ id \in DOMAIN RunPath(r) /\ fault # "fetch"
          IN  /\ id = NoRestore => fault = "none"
              /\ opt_restore' = [opt_restore EXCEPT ![r] = id]
              /\ store' = [store EXCEPT ![r] =
                              IF fetched THEN (id :> RunPath(r)[id]) @@ @ ELSE @]
              /\ checkpoint' = [checkpoint EXCEPT ![r] =
                              IF fetched /\ fault = "none"
                              THEN torch_load(RunPath(r)[id]) ELSE None]
    /\ logger' = [logger EXCEPT ![r] = 0]
    /\ pc' = [pc EXCEPT ![r] = "setup"]
    /\ UNCHANGED tensors
    /\ UNCHANGED << trainer, opt, len_dataloader, exc, epoch, batch_idx, n_iter,
                    params, grads, optimizer_g, optimizer_d, loss, writer, wandb_log,
                    files, zero_grad_to_none, batches, d_calls, g_calls, saves, hist >>

\* create_networks: fresh networks, loaded from the checkpoint if there is one
create_networks(ck) ==
    IF ck # None THEN [FreshParams EXCEPT !["G"] = ck.G, !["D"] = ck.D]
    ELSE FreshParams

\* create_optimizers: Adam at the base rate, its state loaded from the checkpoint
create_optimizer(lr_in, ck, name) ==
    IF ck # None THEN ck[name] ELSE Adam(lr_in)

\* (mutant) the loop starts from zero whether or not a checkpoint was loaded
InitialValueZero(ck, id, field) == 0

\* initial_epoch / n_iter: checkpoint[...] if opt.restore else 0
InitialValue(ck, id, field) == IF id # NoRestore THEN ck[field] ELSE 0

\* Run 2 reads run 1's files once, in Restore, at any moment of run 1, and
\* shares nothing with it afterwards: its later steps are taken once run 1
\* has stopped, which leaves out no state of run 2 and none of run 1.
Stopped(r) == pc[r] \in {"done", "crashed"}
Scheduled(r) == r = 2 => Stopped(1)

\* WGAN_trainer from create_networks to the entry of the training loop
Setup(r) ==
    /\ pc[r] = "setup"
    /\ Scheduled(r)
    /\ params' = [params EXCEPT ![r] = create_networks(checkpoint[r])]
    /\ optimizer_g' = [optimizer_g EXCEPT ![r] =
                          create_optimizer(lr_g, checkpoint[r], "optimizer_g")]
    /\ optimizer_d' = [optimizer_d EXCEPT ![r] =
                          create_optimizer(lr_d, checkpoint[r], "optimizer_d")]
    /\ IF opt_restore[r] # NoRestore /\ checkpoint[r] = None
       THEN \* None['epoch']
            /\ pc' = [pc EXCEPT ![r] = "crashed"]
            /\ exc' = [exc EXCEPT ![r] = "TypeError"]
            /\ UNCHANGED << epoch, n_iter >>
       ELSE LET initial_epoch == InitialValue(checkpoint[r], opt_restore[r], "epoch")
            IN  /\ epoch' = [epoch EXCEPT ![r] = initial_epoch]
                /\ n_iter' = [n_iter EXCEPT ![r] =
                                  InitialValue(checkpoint[r], opt_restore[r], "n_iter")]
                /\ pc' = [pc EXCEPT ![r] =
                              IF initial_epoch < opt.epochs THEN "batch" ELSE "done"]
                /\ exc' = exc
    /\ batch_idx' = [batch_idx EXCEPT ![r] = 0]
    /\ UNCHANGED tensors
    /\ UNCHANGED << trainer, opt, len_dataloader, opt_restore, checkpoint, grads, loss,
                    logger, writer, wandb_log, store, files, zero_grad_to_none,
                    batches, d_calls, g_calls, saves, hist >>

\* ----------------------------------------------------------------- Logger
ImageNames == << "image/training", "mask/training",
                 "image/first iteration", "image/second iteration" >>
ScalarNames == << "Epoch", "Iteration", "loss/first Mask L1 Loss",
                  "loss/second Mask L1 Loss", "gan/D Loss", "gan/G Loss",
                  "Perceptual Loss" >>

\* sink calls made by four add_image calls: the writer, then wandb, per image
ImageCalls ==
    [i \in 1..(2 * Len(ImageNames)) |->
        << IF i % 2 = 1 THEN "writer" ELSE "wandb", ImageNames[(i + 1) \div 2] >>]

\* sink calls made by add_scalars: the writer per key, then wandb once
ScalarCalls ==
    [i \in 1..(Len(ScalarNames) + 1) |->
        IF i <= Len(ScalarNames) THEN << "writer", ScalarNames[i] >>
        ELSE << "wandb", "scalars" >>]

\* the sinks after the first n calls: the writer tags an event with
\* current_iteration, wandb.log with its own step (one per call)
RECURSIVE Deliver(_, _, _, _)
Deliver(sinks, calls, n, it) ==
    IF n = 0 THEN sinks
    ELSE LET prev == Deliver(sinks, calls, n - 1, it)
             c == calls[n]
         IN  IF c[1] = "writer"
             THEN [prev EXCEPT !.writer = @ \cup {<< c[2], it >>}]
             ELSE [prev EXCEPT !.wandb = @ \cup {<< c[2], Cardinality(prev.wandb) >>}]

\* index of the first call to the sink that is down (0: every sink is up)
FirstCall(calls, down) ==
    IF down = "none" THEN 0
    ELSE CHOOSE i \in DOMAIN calls :
            calls[i][1] = down /\ \A j \in 1..(i - 1) : calls[j][1] # down

\* a Logger method making "calls" while sink "down" raises: the calls before
\* the failing one are delivered and the exception leaves the method
Log(r, calls, down, next) ==
    LET k == FirstCall(calls, down)
        n == IF k = 0 THEN Len(calls) ELSE k - 1
        after == Deliver([writer |-> writer[r], wandb |-> wandb_log[r]],
                         calls, n, logger[r])
    IN  /\ writer' = [writer EXCEPT ![r] = after.writer]
        /\ wandb_log' = [wandb_log EXCEPT ![r] = after.wandb]
        /\ pc' = [pc EXCEPT ![r] = IF k = 0 THEN next ELSE "crashed"]
        /\ exc' = [exc EXCEPT ![r] = IF k = 0 THEN @ ELSE "LoggingSinkError"]

Sinks == {"writer", "wandb"}

\* ---------------------------------------------------- WGAN_trainer's loop
\* whether a cadence fires at iteration n: n % every == 1
Cadence(n, every) == n % every = 1

\* (mutant) the counter restarts with each epoch's first batch
NextIterPerEpoch(n, idx) == IF idx = 0 THEN 1 ELSE n + 1

\* n_iter += 1
NextIter(n, idx) == n + 1

\* for batch_idx, (img, mask) in enumerate(dataloader): up to the composites
BeginBatch(r) ==
    /\ trainer = "WGAN"
    /\ pc[r] = "batch"
    /\ batches' = [batches EXCEPT ![r] = @ + 1]
    /\ n_iter' = [n_iter EXCEPT ![r] = NextIter(@, batch_idx[r])]
    /\ logger' = [logger EXCEPT ![r] = n_iter'[r]]
    /\ grads' = [grads EXCEPT ![r] = zero_grad(@, optimizer_d_params(trainer))]
    /\ pc' = [pc EXCEPT ![r] =
                  IF Cadence(n_iter'[r], opt.log_every) THEN "images" ELSE "d_step"]
    /\ UNCHANGED tensors
    /\ UNCHANGED << trainer, opt, len_dataloader, opt_restore, exc, checkpoint, epoch,
                    batch_idx, params, optimizer_g, optimizer_d, loss, writer,
                    wandb_log, store, files, zero_grad_to_none, d_calls, g_calls,
                    saves, hist >>

\* if n_iter % opt.log_every == 1: four logger.add_image calls
LogImages(r) ==
    /\ pc[r] = "images"
    /\ \E down \in {"none"} \cup Sinks : Log(r, ImageCalls, down, "d_step")
    /\ UNCHANGED tensors
    /\ UNCHANGED << trainer, opt, len_dataloader, opt_restore, checkpoint, epoch,
                    batch_idx, n_iter, params, grads, optimizer_g, optimizer_d, loss,
                    logger, store, files, zero_grad_to_none, batches, d_calls,
                    g_calls, saves, hist >>

\* Adam's step count advances when the step updates a parameter
Counted(o, g, bound, to_none) ==
    IF Stepped(g, bound, to_none) # {} THEN [o EXCEPT !.t = @ + 1] ELSE o

\* the training state a run has reached
TrainState(e, n, p, og, od) ==
    [ epoch |-> e, n_iter |-> n, G_updates |-> p["G"].g, D_updates |-> p["D"].d,
      lr_g |-> og.lr, lr_d |-> od.lr ]

DStep_skipped(r) ==
    /\ trainer = "WGAN"
    /\ pc[r] = "d_step"
    /\ pc' = [pc EXCEPT ![r] = "g_step"]
    /\ UNCHANGED tensors
    /\ UNCHANGED << trainer, opt, len_dataloader, opt_restore, exc, checkpoint, epoch,
                    batch_idx, n_iter, params, grads, optimizer_g, optimizer_d, loss,
                    logger, writer, wandb_log, store, files, zero_grad_to_none,
                    batches, d_calls, g_calls, saves, hist >>

\* ### Train discriminator: loss_D on the detached composite, backward, step
DStep(r) ==
    /\ trainer = "WGAN"
    /\ pc[r] = "d_step"
    /\ LET bound == optimizer_d_params(trainer)
           g1 == backward(grads[r], loss_D_reaches, << "loss_D", batches[r] >>)
       IN  /\ grads' = [grads EXCEPT ![r] = g1]
           /\ params' = [params EXCEPT ![r] = step(@, g1, bound, "d", zero_grad_to_none)]
           /\ optimizer_d' = [optimizer_d EXCEPT ![r] =
                                 Counted(@, g1, bound, zero_grad_to_none)]
    /\ d_calls' = [d_calls EXCEPT ![r] = @ + 1]
    /\ pc' = [pc EXCEPT ![r] = "g_step"]
    /\ UNCHANGED tensors
    /\ UNCHANGED << trainer, opt, len_dataloader, opt_restore, exc, checkpoint, epoch,
                    batch_idx, n_iter, optimizer_g, loss, logger, writer, wandb_log,
                    store, files, zero_grad_to_none, batches, g_calls, saves, hist >>

\* ### Train Generator: zero_grad, the composite loss, backward, step
GStep(r) ==
    /\ trainer = "WGAN"
    /\ pc[r] = "g_step"
    /\ LET bound == optimizer_g_params(trainer)
           g0 == zero_grad(grads[r], bound)
           g1 == backward(g0, loss_reaches, << "loss", batches[r] >>)
       IN  /\ grads' = [grads EXCEPT ![r] = g1]
           /\ loss' = [loss EXCEPT ![r] =
                          [ value |-> [G |-> params[r]["G"], D |-> params[r]["D"]],
                            grad_fn |-> TRUE ]]
           /\ params' = [params EXCEPT ![r] = step(@, g1, bound, "g", zero_grad_to_none)]
           /\ optimizer_g' = [optimizer_g EXCEPT ![r] =
                                 Counted(@, g1, bound, zero_grad_to_none)]
    /\ g_calls' = [g_calls EXCEPT ![r] = @ + 1]
    /\ hist' = IF r = 1
               THEN (n_iter[r] :> TrainState(epoch[r], n_iter[r], params'[r],
                                             optimizer_g'[r], optimizer_d[r])) @@ hist
               ELSE hist
    /\ pc' = [pc EXCEPT ![r] = "scalars"]
    /\ UNCHANGED tensors
    /\ UNCHANGED << trainer, opt, len_dataloader, opt_restore, exc, checkpoint, epoch,
                    batch_idx, n_iter, optimizer_d, logger, writer, wandb_log, store,
                    files, zero_grad_to_none, batches, d_calls, saves >>

\* the time-left estimate and logger.add_scalars, every batch
LogScalars(r) ==
    /\ pc[r] = "scalars"
    /\ \E down \in {"none"} \cup Sinks : Log(r, ScalarCalls, down, "ckpt")
    /\ UNCHANGED tensors
    /\ UNCHANGED << trainer, opt, len_dataloader, opt_restore, checkpoint, epoch,
                    batch_idx, n_iter, params, grads, optimizer_g, optimizer_d, loss,
                    logger, store, files, zero_grad_to_none, batches, d_calls,
                    g_calls, saves, hist >>

\* package(x): x.module.state_dict() if opt.multi_gpu; an optimizer has no .module
package_raises(o) == o.multi_gpu

\* (mutant) checkpoint_latest is written once and not overwritten afterwards
save_state_keep_latest(st, e, batch, n, G, og, D, od, l, o) ==
    LET state == [ epoch |-> e, G |-> G, optimizer_g |-> og, D |-> D,
                   optimizer_d |-> od, n_iter |-> n, loss |-> l ]
    IN  (Iter(n) :> torch_save(state)) @@ st @@ (Latest :> torch_save(state))

\* save_state: one state dictionary, written under checkpoint_<n_iter> and
\* under checkpoint_latest
save_state(st, e, batch, n, G, og, D, od, l, o) ==
    LET state == [ epoch |-> e, G |-> G, optimizer_g |-> og, D |-> D,
                   optimizer_d |-> od, n_iter |-> n, loss |-> l ]
    IN  (Latest :> torch_save(state)) @@ (Iter(n) :> torch_save(state)) @@ st

\* if n_iter % opt.checkpoint_every == 1: save_state(...); then the next batch
Checkpoint(r) ==
    /\ pc[r] = "ckpt"
    /\ IF Cadence(n_iter[r], opt.checkpoint_every)
       THEN /\ saves' = [saves EXCEPT ![r] =
                            Append(@, [ epoch |-> epoch[r], n_iter |-> n_iter[r],
                                        loss |-> loss[r] ])]
            /\ IF package_raises(opt)
               THEN /\ pc' = [pc EXCEPT ![r] = "crashed"]
                    /\ exc' = [exc EXCEPT ![r] = "AttributeError"]
                    /\ UNCHANGED << store, batch_idx >>
               ELSE /\ store' = [store EXCEPT ![r] =
                                    save_state(@, epoch[r], batch_idx[r], n_iter[r],
                                               params[r]["G"], optimizer_g[r],
                                               params[r]["D"], optimizer_d[r],
                                               loss[r], opt)]
                    /\ pc' = [pc EXCEPT ![r] =
                                  IF batch_idx[r] + 1 < len_dataloader
                                  THEN "batch" ELSE "epoch_end"]
                    /\ batch_idx' = [batch_idx EXCEPT ![r] = @ + 1]
                    /\ exc' = exc
       ELSE /\ pc' = [pc EXCEPT ![r] =
                          IF batch_idx[r] + 1 < len_dataloader
                          THEN "batch" ELSE "epoch_end"]
            /\ batch_idx' = [batch_idx EXCEPT ![r] = @ + 1]
            /\ UNCHANGED << store, saves, exc >>
    /\ UNCHANGED tensors
    /\ UNCHANGED << trainer, opt, len_dataloader, opt_restore, checkpoint, epoch,
                    n_iter, params, grads, optimizer_g, optimizer_d, loss, logger,
                    writer, wandb_log, files, zero_grad_to_none, batches, d_calls,
                    g_calls, hist >>

\* (mutant) the decay is applied to the optimizer's current rate
adjust_learning_rate_cumulative(lr_in, optimizer, e, o) ==
    LET k == e \div o.lr_decrease_epoch
    IN  [optimizer EXCEPT !.lr = << @[1] * Pow(lr_decrease_factor_num, k),
                                    @[2] * Pow(lr_decrease_factor_den, k) >>]

\* adjust_learning_rate: overwrite the optimizer's rate
adjust_learning_rate(lr_in, optimizer, e, o) ==
    [optimizer EXCEPT !.lr = DecayedLr(lr_in, e, o)]

\* end of an epoch: the learning rate decrease, then the next epoch
EpochEnd(r) ==
    /\ trainer = "WGAN"
    /\ pc[r] = "epoch_end"
    /\ optimizer_g' = [optimizer_g EXCEPT ![r] =
                          adjust_learning_rate(lr_g, @, epoch[r] + 1, opt)]
    /\ optimizer_d' = [optimizer_d EXCEPT ![r] =
                          adjust_learning_rate(lr_d, @, epoch[r] + 1, opt)]
    /\ IF epoch[r] + 1 < opt.epochs
       THEN /\ epoch' = [epoch EXCEPT ![r] = @ + 1]
            /\ batch_idx' = [batch_idx EXCEPT ![r] = 0]
            /\ pc' = [pc EXCEPT ![r] = "batch"]
       ELSE /\ pc' = [pc EXCEPT ![r] = "done"]
            /\ UNCHANGED << epoch, batch_idx >>
    /\ UNCHANGED tensors
    /\ UNCHANGED << trainer, opt, len_dataloader, opt_restore, exc, checkpoint, n_iter,
                    params, grads, loss, logger, writer, wandb_log, store, files,
                    zero_grad_to_none, batches, d_calls, g_calls, saves, hist >>

\* --------------------------------------------------- LSGAN_trainer's loop
\* LSGAN_trainer up to the entry of the training loop: there is no restore
LS_Setup(r) ==
    /\ trainer = "LSGAN"
    /\ r = 1
    /\ pc[r] = "idle"
    /\ params' = [params EXCEPT ![r] = FreshParams]
    /\ optimizer_g' = [optimizer_g EXCEPT ![r] = Adam(lr_g)]
    /\ optimizer_d' = [optimizer_d EXCEPT ![r] = Adam(lr_d)]
    /\ epoch' = [epoch EXCEPT ![r] = 0]
    /\ batch_idx' = [batch_idx EXCEPT ![r] = 0]
    /\ pc' = [pc EXCEPT ![r] = "batch"]
    /\ UNCHANGED tensors
    /\ UNCHANGED << trainer, opt, len_dataloader, opt_restore, exc, checkpoint, n_iter,
                    grads, loss, logger, writer, wandb_log, store, files,
                    zero_grad_to_none, batches, d_calls, g_calls, saves, hist >>

\* the next batch and ### Train Discriminator
LS_DStep(r) ==
    /\ trainer = "LSGAN"
    /\ pc[r] = "batch"
    /\ batches' = [batches EXCEPT ![r] = @ + 1]
    /\ LET bound == optimizer_d_params(trainer)
           g0 == zero_grad(grads[r], bound)
           g1 == backward(g0, loss_D_reaches, << "loss_D", batches'[r] >>)
       IN  /\ grads' = [grads EXCEPT ![r] = g1]
           /\ params' = [params EXCEPT ![r] = step(@, g1, bound, "d", zero_grad_to_none)]
           /\ optimizer_d' = [optimizer_d EXCEPT ![r] =
                                 Counted(@, g1, bound, zero_grad_to_none)]
    /\ d_calls' = [d_calls EXCEPT ![r] = @ + 1]
    /\ pc' = [pc EXCEPT ![r] = "g_step"]
    /\ UNCHANGED tensors
    /\ UNCHANGED << trainer, opt, len_dataloader, opt_restore, exc, checkpoint, epoch,
                    batch_idx, n_iter, optimizer_g, loss, logger, writer, wandb_log,
                    store, files, zero_grad_to_none, g_calls, saves, hist >>

\* ### Train Generator, the printed log, then the next batch
LS_GStep(r) ==
    /\ trainer = "LSGAN"
    /\ pc[r] = "g_step"
    /\ LET bound == optimizer_g_params(trainer)
           g0 == zero_grad(grads[r], bound)
           g1 == backward(g0, loss_reaches, << "loss", batches[r] >>)
       IN  /\ grads' = [grads EXCEPT ![r] = g1]
           /\ loss' = [loss EXCEPT ![r] =
                          [ value |-> [G |-> params[r]["G"], D |-> params[r]["D"]],
                            grad_fn |-> TRUE ]]
           /\ params' = [params EXCEPT ![r] = step(@, g1, bound, "g", zero_grad_to_none)]
           /\ optimizer_g' = [optimizer_g EXCEPT ![r] =
                                 Counted(@, g1, bound, zero_grad_to_none)]
    /\ g_calls' = [g_calls EXCEPT ![r] = @ + 1]
    /\ pc' = [pc EXCEPT ![r] =
                  IF batch_idx[r] + 1 < len_dataloader THEN "batch" ELSE "epoch_end"]
    /\ batch_idx' = [batch_idx EXCEPT ![r] = @ + 1]
    /\ UNCHANGED tensors
    /\ UNCHANGED << trainer, opt, len_dataloader, opt_restore, exc, checkpoint, epoch,
                    n_iter, optimizer_d, logger, writer, wandb_log, store, files,
                    zero_grad_to_none, batches, d_calls, saves, hist >>

\* save_model: the generator, saved when epoch % opt.checkpoint_interval == 0
save_model(fs, net, e, o) ==
    IF e % o.checkpoint_interval = 0 THEN fs \cup {<< e, net >>} ELSE fs

\* end of an epoch: the learning rate decrease, save_model, the next epoch
LS_EpochEnd(r) ==
    /\ trainer = "LSGAN"
    /\ pc[r] = "epoch_end"
    /\ optimizer_g' = [optimizer_g EXCEPT ![r] =
                          adjust_learning_rate(lr_g, @, epoch[r] + 1, opt)]
    /\ optimizer_d' = [optimizer_d EXCEPT ![r] =
                          adjust_learning_rate(lr_d, @, epoch[r] + 1, opt)]
    /\ files' = [files EXCEPT ![r] = save_model(@, params[r]["G"], epoch[r] + 1, opt)]
    /\ IF epoch[r] + 1 < opt.epochs
       THEN /\ epoch' = [epoch EXCEPT ![r] = @ + 1]
            /\ batch_idx' = [batch_idx EXCEPT ![r] = 0]
            /\ pc' = [pc EXCEPT ![r] = "batch"]
       ELSE /\ pc' = [pc EXCEPT ![r] = "done"]
            /\ UNCHANGED << epoch, batch_idx >>
    /\ UNCHANGED tensors
    /\ UNCHANGED << trainer, opt, len_dataloader, opt_restore, exc, checkpoint, n_iter,
                    params, grads, loss, logger, writer, wandb_log, store,
                    zero_grad_to_none, batches, d_calls, g_calls, saves, hist >>

\* ------------------------------------------------------------------ runs
Next ==
    \E r \in Runs :
        \/ Restore(r) \/ Setup(r) \/ BeginBatch(r) \/ LogImages(r) \/ DStep(r)
        \/ GStep(r) \/ LogScalars(r) \/ Checkpoint(r) \/ EpochEnd(r)
        \/ LS_Setup(r) \/ LS_DStep(r) \/ LS_GStep(r) \/ LS_EpochEnd(r)

Spec == Init /\ [][Next]_vars

\* ================================================================ claims
Running == {"batch", "images", "d_step", "g_step", "scalars", "ckpt"}
Started(r) == pc[r] \notin {"idle", "setup"}

\* the iteration value a run starts from
StartIter(r) == IF checkpoint[r] # None THEN checkpoint[r].n_iter ELSE 0

\* batches whose body has been executed to its end
Completed(r) == IF pc[r] \in {"batch", "epoch_end", "done"} THEN batches[r] ELSE batches[r] - 1

\* iteration keys this run's save_state has written
WrittenBy(r) ==
    {n \in 0..(n_iter[r]) : Iter(n) \in DOMAIN store[r] /\ Iter(n) # opt_restore[r]}

\* C1 (as claimed): a run whose restore was requested and failed is not ended
\* by an exception of its start-up and starts counting at epoch 0, iteration 0.
C1_FailedRestoreStartsFresh ==
    \A r \in Runs :
        (Started(r) /\ opt_restore[r] # NoRestore /\ checkpoint[r] = None)
            => (exc[r] # "TypeError" /\ n_iter[r] = batches[r])

\* C2 (as claimed): a run resumed from a checkpoint of run 1 has, after each of
\* its batches, the training state run 1 had at the same iteration value.
C2_ResumeMatchesUninterrupted ==
    (checkpoint[2] # None /\ pc[2] \in {"scalars", "ckpt"} /\ n_iter[2] \in DOMAIN hist)
        => TrainState(epoch[2], n_iter[2], params[2], optimizer_g[2], optimizer_d[2])
               = hist[n_iter[2]]

\* iteration values the writer has received with the scalar "Iteration"
LoggedIters(r) == {e[2] : e \in {x \in writer[r] : x[1] = "Iteration"}}

\* C3: in WGAN_trainer n_iter is the starting value (0, or the checkpointed
\* value in a resumed run) plus the number of batches fetched so far, across
\* epoch boundaries, and the values logged are consecutive from the first.
C3_IterCountsBatches ==
    \A r \in Runs :
        (trainer = "WGAN" /\ Started(r))
            => /\ n_iter[r] = StartIter(r) + batches[r]
               /\ LoggedIters(r) =
                      (StartIter(r) + 1)..(StartIter(r) + Cardinality(LoggedIters(r)))

C3_Witness ==
    \E r \in Runs :
        /\ checkpoint[r] # None /\ StartIter(r) >= 3 /\ len_dataloader >= 2
        /\ batches[r] > len_dataloader /\ Cardinality(LoggedIters(r)) > len_dataloader

\* C4 (as claimed): after k batches of WGAN_trainer's loop save_state has been
\* invoked at least k div M times, M = opt.checkpoint_every >= 1.
C4_SaveEveryM ==
    \A r \in Runs :
        (trainer = "WGAN" /\ pc[r] \in {"batch", "epoch_end", "done"})
            => Len(saves[r]) >= Completed(r) \div opt.checkpoint_every

C6_SaveRestoreRoundTrip ==
    [][\A r \in Runs :
        /\ (pc[r] = "idle" /\ pc'[r] = "setup" /\ opt_restore'[r] = Latest
                /\ checkpoint'[r] # None)
              => /\ saves[1] # << >>
                 /\ LET given == saves[1][Len(saves[1])]
                    IN  /\ checkpoint'[r].epoch = given.epoch
                        /\ checkpoint'[r].n_iter = given.n_iter
                        /\ checkpoint'[r].loss.value = given.loss.value
        /\ (pc[r] = "setup" /\ pc'[r] # "setup" /\ checkpoint[r] # None)
              => /\ pc'[r] = "batch" /\ batch_idx'[r] = 0
                 /\ epoch'[r] = checkpoint[r].epoch
                 /\ n_iter'[r] = checkpoint[r].n_iter
      ]_vars

C6_Witness ==
    /\ opt_restore[2] = Latest /\ checkpoint[2] # None
    /\ checkpoint[2].n_iter >= 3 /\ checkpoint[2].epoch >= 1
    /\ pc[2] = "batch" /\ batches[2] = 0 /\ n_iter[2] = checkpoint[2].n_iter

\* baseLr * decayFactor^(e // decayEvery), as an exact fraction
ScheduledLr(base, e) ==
    LET k == e \div opt.lr_decrease_epoch
    IN  << base * Pow(lr_decrease_factor_num, k), Pow(lr_decrease_factor_den, k) >>

\* C7: while the batches of epoch e are processed, in either trainer, in a
\* fresh or a resumed run, each optimizer's rate is its base rate times
\* decayFactor^(e // decayEvery).
C7_LrFollowsSchedule ==
    \A r \in Runs :
        pc[r] \in Running
            => /\ optimizer_g[r].lr = ScheduledLr(lr_g, epoch[r])
               /\ optimizer_d[r].lr = ScheduledLr(lr_d, epoch[r])

C7_Witness ==
    \E r \in Runs :
        /\ pc[r] = "g_step" /\ epoch[r] = 2 /\ opt.lr_decrease_epoch = 1
        /\ optimizer_g[r].lr = << lr_g, 4 >>

\* C8 (as claimed): no run is ended by the failure of a logging sink.
C8_SinkFailureSwallowed ==
    \A r \in Runs : exc[r] # "LoggingSinkError"

\* steps a network's parameters had received when the run started
StartSteps(r, net, who) == IF checkpoint[r] # None THEN checkpoint[r][net][who] ELSE 0

\* C9 (as claimed): in both trainers the generator's parameters are stepped by
\* optimizer_g only, the discriminator's by optimizer_d only, every
\* optimizer_d.step() is applied to the discriminator, and the perceptual
\* network's parameters are never stepped.
C9_ParamsOwnedByOptimizer ==
    \A r \in Runs :
        Started(r) /\ exc[r] # "TypeError"
            => /\ params[r]["G"].d = 0
               /\ params[r]["D"].g = 0
               /\ params[r]["D"].d = StartSteps(r, "D", "d") + d_calls[r]
               /\ params[r]["P"] = [g |-> 0, d |-> 0]

\* C10: every snapshot in a store records generator and discriminator after
\* the same number of optimizer steps, equal to the saved n_iter, and when
\* save_state is reached both optimizers have stepped once per batch fetched.
C10_SnapshotMatched ==
    \A r \in Runs :
        /\ \A k \in DOMAIN store[r] :
              LET s == torch_load(store[r][k])
              IN  /\ s.G = [g |-> s.n_iter, d |-> 0]
                  /\ s.D = [g |-> 0, d |-> s.n_iter]
                  /\ s.optimizer_g.t = s.n_iter /\ s.optimizer_d.t = s.n_iter
        /\ pc[r] = "ckpt"
              => /\ d_calls[r] = batches[r] /\ g_calls[r] = batches[r]
                 /\ n_iter[r] = StartIter(r) + batches[r]
                 /\ params[r]["G"].g = n_iter[r] /\ params[r]["D"].d = n_iter[r]

C10_Witness ==
    \E r \in Runs :
        /\ checkpoint[r] # None
        /\ \E k \in DOMAIN store[r] :
              /\ torch_load(store[r][k]).n_iter > StartIter(r)
              /\ torch_load(store[r][k]).G.g >= 3


\* ------------------------------------------------ the masked composite

PixelValues == {-1, 0, 1}       \* values of one position of a normalised image
Pixels == 1..MaxPixels
Images == [Pixels -> PixelValues]
Masks  == [Pixels -> {0, 1}]    \* 1 marks the hole

Abs(v) == IF v < 0 THEN -v ELSE v

RECURSIVE SumAbs(_, _, _)
SumAbs(a, b, k) ==
    IF k = 0 THEN 0 ELSE Abs(a[k] - b[k]) + SumAbs(a, b, k - 1)

whole_image_swapped(x, y, m) ==
    [p \in DOMAIN x |-> x[p] * m[p] + y[p] * (1 - m[p])]

\* img * (1 - mask) + out * mask, position by position
whole_image(x, y, m) ==
    [p \in DOMAIN x |-> x[p] * (1 - m[p]) + y[p] * m[p]]

\* nn.L1Loss: the mean absolute difference, as << sum, count >>
L1Loss(a, b) == << SumAbs(a, b, Len(a)), Len(a) >>

\* one batch of either trainer: the generator's outputs may be any images
InitBlend ==
    /\ trainer \in {"WGAN", "LSGAN"}
    /\ opt = CHOOSE o \in Configs : UsedBy(trainer, o)
    /\ len_dataloader = 1
    /\ pc = [r \in Runs |-> IF r = 1 THEN "forward" ELSE "idle"]
    /\ zero_grad_to_none = FALSE
    /\ FreshRuns
    /\ img \in Images /\ mask \in Masks
    /\ first_out \in Images /\ second_out \in Images
    /\ first_out_wholeimg = NoTensor /\ second_out_wholeimg = NoTensor
    /\ first_MaskL1Loss = NoTensor /\ second_MaskL1Loss = NoTensor

training == << trainer, opt, len_dataloader, opt_restore, exc, checkpoint,
               epoch, batch_idx, n_iter, params, grads, optimizer_g,
               optimizer_d, loss, logger, writer, wandb_log, store, files,
               zero_grad_to_none, batches, d_calls, g_calls, saves, hist >>

Composite ==
    /\ pc[1] = "forward"
    /\ first_out_wholeimg' = whole_image(img, first_out, mask)
    /\ second_out_wholeimg' = whole_image(img, second_out, mask)
    /\ pc' = [pc EXCEPT ![1] = "losses"]
    /\ UNCHANGED << img, mask, first_out, second_out,
                    first_MaskL1Loss, second_MaskL1Loss >>
    /\ UNCHANGED training

MaskL1 ==
    /\ pc[1] = "losses"
    /\ first_MaskL1Loss' = L1Loss(first_out_wholeimg, img)
    /\ second_MaskL1Loss' = L1Loss(second_out_wholeimg, img)
    /\ pc' = [pc EXCEPT ![1] = "blended"]
    /\ UNCHANGED << img, mask, first_out, second_out,
                    first_out_wholeimg, second_out_wholeimg >>
    /\ UNCHANGED training

NextBlend == Composite \/ MaskL1

SpecBlend == InitBlend /\ [][NextBlend]_vars

\* C11: each composite equals the input image where the mask is 0 and the
\* generator's output where the mask is 1; under an all-zero mask both
\* composites equal the input and both L1 losses against the input are 0.
C11_CompositeKeepsKnownPixels ==
    /\ pc[1] \in {"losses", "blended"} =>
         \A p \in Pixels :
            /\ mask[p] = 0 => /\ first_out_wholeimg[p] = img[p]
                              /\ second_out_wholeimg[p] = img[p]
            /\ mask[p] = 1 => /\ first_out_wholeimg[p] = first_out[p]
                              /\ second_out_wholeimg[p] = second_out[p]
    /\ (pc[1] = "blended" /\ \A p \in Pixels : mask[p] = 0) =>
         /\ first_out_wholeimg = img /\ second_out_wholeimg = img
         /\ first_MaskL1Loss[1] = 0 /\ second_MaskL1Loss[1] = 0

C11_WitnessZeroMask ==
    /\ pc[1] = "blended"
    /\ \A p \in Pixels : mask[p] = 0
    /\ \A p \in Pixels : first_out[p] # img[p] /\ second_out[p] # img[p]
    /\ first_MaskL1Loss[1] = 0 /\ second_MaskL1Loss[1] = 0

C11_Witness ==
    /\ pc[1] = "blended"
    /\ \E p, q \in Pixels : mask[p] = 0 /\ mask[q] = 1
                             /\ second_out_wholeimg[q] # img[q]
    /\ second_MaskL1Loss[1] > 0

\* C14: the backward pass of the discriminator loss leaves no gradient on the
\* generator's parameters (its fake input is detached), while the backward
\* pass of the generator loss reaches the generator's parameters, and the
\* discriminator's on the way, through the non-detached evaluation.
C14_DLossDetachedFromGenerator ==
    \A r \in Runs :
        /\ \A t \in grads[r]["G"].from : t[1] # "loss_D"
        /\ (batches[r] > 0 /\ d_calls[r] = batches[r] /\ g_calls[r] = batches[r]) =>
              /\ << "loss", batches[r] >> \in grads[r]["G"].from
              /\ << "loss", batches[r] >> \in grads[r]["D"].from

C14_Witness ==
    \E r \in Runs :
        /\ pc[r] = "scalars" /\ batches[r] = 2
        /\ grads[r]["G"].from = {<< "loss", 2 >>}
        /\ {<< "loss_D", 2 >>, << "loss", 2 >>} \subseteq grads[r]["D"].from

\* C12: in both trainers the two optimizers' steps alternate, the
\* discriminator's first: a discriminator step is only taken when every
\* earlier one was followed by a generator step, a generator step only after
\* the discriminator step of the same batch, and a batch that ran to its end
\* took exactly one step of each.
C12_StepsAlternate ==
    /\ [](\A r \in Runs :
            /\ d_calls[r] - g_calls[r] \in {0, 1}
            /\ pc[r] = "g_step" => d_calls[r] = batches[r] /\ g_calls[r] = batches[r] - 1
            /\ pc[r] \in {"batch", "epoch_end", "done"} =>
                  d_calls[r] = batches[r] /\ g_calls[r] = batches[r])
    /\ [][\A r \in Runs :
            /\ d_calls'[r] # d_calls[r] =>
                  /\ d_calls'[r] = d_calls[r] + 1
                  /\ g_calls[r] = d_calls[r] /\ g_calls'[r] = g_calls[r]
            /\ g_calls'[r] # g_calls[r] =>
                  /\ g_calls'[r] = g_calls[r] + 1
                  /\ d_calls[r] = g_calls[r] + 1 /\ d_calls'[r] = d_calls[r]]_vars

C12_Witness ==
    \E r \in Runs :
        /\ pc[r] = "epoch_end" /\ batches[r] = 2
        /\ d_calls[r] = 2 /\ g_calls[r] = 2

\* C13 (as claimed): in both trainers the gradient the discriminator holds
\* when its optimizer steps comes from the current batch's loss_D alone:
\* nothing is left from earlier batches or from the generator's backward pass.
C13_DGradFromCurrentBatchOnly ==
    \A r \in Runs :
        pc[r] = "g_step" =>
            grads[r]["D"].from = {<< "loss_D", batches[r] >>}

\* the same, for WGAN_trainer alone
C13_HoldsInWGAN ==
    trainer = "WGAN" => C13_DGradFromCurrentBatchOnly

\* C15 (as claimed): for either value of opt.multi_gpu every call of
\* save_state completes and has written the snapshot of its iteration.
C15_SaveStateCompletes ==
    \A r \in Runs :
        /\ exc[r] # "AttributeError"
        /\ \A i \in DOMAIN saves[r] :
              /\ Iter(saves[r][i].n_iter) \in DOMAIN store[r]
              /\ Latest \in DOMAIN store[r]

\* the same, on one device only
C15_HoldsOnOneDevice ==
    ~opt.multi_gpu => C15_SaveStateCompletes

\* iterations of the batches a run has executed to their end
Processed(r) == (StartIter(r) + 1)..(StartIter(r) + Completed(r))

\* in every K consecutive processed batches exactly one emitted the event
\* "name" to the writer, tagged with that batch's iteration
OncePerWindow(r, name, K) ==
    \A a \in Processed(r) :
        (a + K - 1) \in Processed(r) =>
            Cardinality({n \in a..(a + K - 1) : << name, n >> \in writer[r]}) = 1

Range(seq) == {seq[i] : i \in DOMAIN seq}

\* C16 (as claimed): for every opt.log_every = K >= 1, a run of WGAN_trainer
\* whose sinks are up emits each of the four images and each scalar once in
\* every K consecutive processed batches, tagged with the batch's iteration.
C16_LoggedOncePerK ==
    \A r \in Runs :
        (trainer = "WGAN" /\ exc[r] = NoExc) =>
            \A name \in Range(ImageNames) \cup Range(ScalarNames) :
                OncePerWindow(r, name, opt.log_every)

\* the images alone, for K >= 2
C16_ImagesOncePerK ==
    \A r \in Runs :
        (trainer = "WGAN" /\ exc[r] = NoExc /\ opt.log_every >= 2) =>
            \A name \in Range(ImageNames) : OncePerWindow(r, name, opt.log_every)

\* the images alone, for every K
C16_ImagesOncePerAnyK ==
    \A r \in Runs :
        (trainer = "WGAN" /\ exc[r] = NoExc) =>
            \A name \in Range(ImageNames) : OncePerWindow(r, name, opt.log_every)

\* batches_left = opt.epochs * len(dataloader) - n_iter
batches_left(r) == opt.epochs * len_dataloader - n_iter[r]

\* C17 (as claimed): in WGAN_trainer, fresh or resumed, n_iter never exceeds
\* opt.epochs * len(dataloader), so batches_left is never negative.
C17_BatchesLeftNonNegative ==
    \A r \in Runs :
        trainer = "WGAN" => /\ n_iter[r] <= opt.epochs * len_dataloader
                            /\ batches_left(r) >= 0

\* the same, for runs started without a checkpoint
C17_HoldsInFreshRuns ==
    \A r \in Runs :
        (trainer = "WGAN" /\ checkpoint[r] = None) => batches_left(r) >= 0

====
